---- MODULE Spec2Model ----
(***************************************************************************)
(* Model of github.com/Nivl/go-logger: a tree of DefaultManager nodes,     *)
(* each fanning composed log messages out to the Logger backends attached  *)
(* to it and to its ancestors.                                             *)
(*                                                                         *)
(* A Go string is a sequence of one-character strings, so concatenation is *)
(* \o and the last byte of a message can be inspected as format() does.    *)
(* A Go map is a function whose DOMAIN is the set of keys present.         *)
(* A manager is identified by its id (uuid in the code, 1, 2, ... here in  *)
(* order of construction); the nil parent is 0.                            *)
(* Every public method is one action; the variable ret holds what the last *)
(* call returned and the calls it made on backends, in order.              *)
(* The last part of the module runs the methods statement by statement in  *)
(* several threads, with the RWMutex of every manager (variables thr and   *)
(* lock); closed remembers the managers closeFromParent has run on.        *)
(***************************************************************************)
EXTENDS Integers, Sequences, FiniteSets, TLC

\* Number of managers a run constructs (the root included).
MaxNodes == 3

VARIABLES nodes, parent, children, tag, globals, loggers, ret, closed, thr, lock

vars == <<nodes, parent, children, tag, globals, loggers, ret, closed, thr, lock>>

mgr == <<nodes, parent, children, tag, globals, loggers>>

----------------------------------------------------------------------------
(* Values *)

NilMgr == 0

EmptyMap == [k \in {} |-> 0]

\* A thread that has called nothing yet, and the zero value of sync.RWMutex:
\* no writer, no reader, no writer waiting.
Threads == {"t1", "t2"}

NoThread == "none"

Unlocked == [w |-> NoThread, r |-> {}, q |-> {}]

\* A thread: the method op it called on manager node with argument arg, the
\* statement pc it is at, the manager at its recursion is visiting, and its
\* local variables: the tag tagv read so far by FullTag, the message msg, the
\* context glob merged so far by allGlobals, the loggers det and children
\* kids detached by closeFromParent or Remove, the managers todo whose
\* closeFromParent(true) is still to run, whether the closeFromParent running
\* is the one Close called (top), the calls made on backends, the manager sub
\* and the errors errs to return.
Idle == [op |-> "idle", pc |-> "idle", node |-> NilMgr, at |-> NilMgr, arg |-> <<>>,
         tagv |-> <<>>, msg |-> <<>>, glob |-> EmptyMap, det |-> EmptyMap, kids |-> {},
         todo |-> <<>>, top |-> TRUE, calls |-> <<>>, sub |-> NilMgr, errs |-> <<>>]

NL == "\n"

QUOTE == "\""

\* Logger instances (pointers) handed to Add. l1 and l2 are two SliceLoggers
\* with no custom id; l3 is a backend with the id "fake-id".
Loggers == {"l1", "l2", "l3"}

SliceLoggerId(l) == IF l = "l3" THEN "fake-id" ELSE ""

\* SliceLogger.ID
LoggerID(l) == IF SliceLoggerId(l) # "" THEN SliceLoggerId(l) ELSE "slice-logger"

LoggerIDs == {LoggerID(l) : l \in Loggers}

\* What Logger.Close may return: nil or a failure.
CloseOutcomes == {"nil", "close failed"}

\* Close of a SliceLogger returns nil; Close of l3, a backend of another
\* kind, returns nil or fails.
CloseResults(l) == IF l = "l3" THEN CloseOutcomes ELSE {"nil"}

ErrAlreadyExist == [kind |-> "ErrAlreadyExist", error |-> "logger already added", Logger |-> "nil"]

NoErr == [kind |-> "nil", error |-> "nil", Logger |-> "nil"]

\* &Err{error: err, Logger: l}
Err(e, l) == [kind |-> "Err", error |-> e, Logger |-> l]

\* One call made by a manager on a backend: method m of logger l, made while
\* visiting manager at, with argument msg, returning res.
Call(meth, l, at, msg, res) == [m |-> meth, l |-> l, at |-> at, msg |-> msg, res |-> res]

\* What a call returned and did: the method op called on manager node with
\* argument arg (a logger or a logger id) or args (the operands of a logging
\* call), the manager sub, the error err, the errors errs or the string val it
\* returned, the calls it made on backends, in order, for each of those
\* calls the line data the backend recorded, and the managers pings it called
\* removeChild on.
NoRet == [op |-> "init", node |-> NilMgr, arg |-> "", args |-> <<>>, sub |-> NilMgr,
          err |-> NoErr, errs |-> <<>>, calls |-> <<>>, val |-> <<>>, data |-> <<>>,
          pings |-> <<>>]

\* All orders in which a Go range loop may visit the keys of a map.
RECURSIVE Orders(_)
Orders(S) == IF S = {} THEN {<<>>}
             ELSE UNION {{<<x>> \o r : r \in Orders(S \ {x})} : x \in S}

----------------------------------------------------------------------------
(* Strings, fmt and encoding/json *)

\* fmt.Sprintln: operands separated by spaces, newline appended.
RECURSIVE JoinSpace(_)
JoinSpace(args) == IF Len(args) = 0 THEN <<>>
                   ELSE IF Len(args) = 1 THEN args[1]
                   ELSE args[1] \o <<" ">> \o JoinSpace(Tail(args))

Sprintln(args) == JoinSpace(args) \o <<NL>>

\* Byte values of the characters used in context keys.
ByteOf(c) == CASE c = "j" -> 106 [] c = "k" -> 107 [] OTHER -> 0

RECURSIVE StrLess(_, _)
StrLess(a, b) == IF Len(a) = 0 THEN Len(b) > 0
                 ELSE IF Len(b) = 0 THEN FALSE
                 ELSE IF ByteOf(a[1]) # ByteOf(b[1]) THEN ByteOf(a[1]) < ByteOf(b[1])
                 ELSE StrLess(Tail(a), Tail(b))

\* encoding/json writes the keys of a map in sorted order.
RECURSIVE SortedKeys(_)
SortedKeys(S) == IF S = {} THEN <<>>
                 ELSE LET k == CHOOSE k \in S : \A o \in S : o = k \/ StrLess(k, o)
                      IN <<k>> \o SortedKeys(S \ {k})

JSONString(s) == <<QUOTE>> \o s \o <<QUOTE>>

RECURSIVE JSONMembers(_, _)
JSONMembers(g, ks) == IF Len(ks) = 0 THEN <<>>
                      ELSE JSONString(ks[1]) \o <<":">> \o JSONString(g[ks[1]])
                           \o (IF Len(ks) > 1 THEN <<",">> ELSE <<>>)
                           \o JSONMembers(g, Tail(ks))

\* json.Marshal of a map[string]interface{} holding strings.
Marshal(g) == <<"{">> \o JSONMembers(g, SortedKeys(DOMAIN g)) \o <<"}">>

----------------------------------------------------------------------------
(* Log levels and the write of the reference backends *)

levelDefault == 0

levelDebug == 1

levelInfo == 2

levelError == 3

\* logLevel.Tag: "[DEBUG]", "[INFO]", "[ERROR]", or nothing for any other level.
\* Mutant: a space is put after the closing bracket.
logLevelTagSpace(level) ==
    LET levelStr == CASE level = levelDebug -> <<"D", "E", "B", "U", "G">>
                      [] level = levelInfo  -> <<"I", "N", "F", "O">>
                      [] level = levelError -> <<"E", "R", "R", "O", "R">>
                      [] OTHER -> <<>>
    IN IF level \in {levelDebug, levelInfo, levelError}
       THEN <<"[">> \o levelStr \o <<"]", " ">>
       ELSE <<>>

logLevelTag(level) ==
    LET levelStr == CASE level = levelDebug -> <<"D", "E", "B", "U", "G">>
                      [] level = levelInfo  -> <<"I", "N", "F", "O">>
                      [] level = levelError -> <<"E", "R", "R", "O", "R">>
                      [] OTHER -> <<>>
    IN IF level \in {levelDebug, levelInfo, levelError}
       THEN <<"[">> \o levelStr \o <<"]">>
       ELSE <<>>

\* The level the backend method meth passes to write.
MethodLevel(meth) == CASE meth = "Error" -> levelError
                       [] meth = "Info"  -> levelInfo
                       [] meth = "Debug" -> levelDebug
                       [] meth = "Log"   -> levelDefault

\* SliceLogger.write, StderrLogger.write: the line put in data (or printed).
write(msg, lvl) == logLevelTag(lvl) \o msg

----------------------------------------------------------------------------
(* Read-only methods of DefaultManager *)

ID(m) == m

Tag(m) == tag[m]

RECURSIVE FullTag(_)
\* Mutant: the manager's own tag put before its parent's full tag.
FullTagOwnFirst(m) == LET t == Tag(m)
                      IN IF parent[m] # NilMgr THEN t \o FullTag(parent[m]) ELSE t

FullTag(m) == LET t == Tag(m)
              IN IF parent[m] # NilMgr THEN FullTag(parent[m]) \o t ELSE t

RECURSIVE allGlobals(_)
\* Mutant: an inherited entry shadows the manager's own entry.
allGlobalsParentWins(m) ==
    LET g == IF parent[m] # NilMgr THEN allGlobals(parent[m]) ELSE EmptyMap
    IN [k \in DOMAIN g \cup DOMAIN globals[m] |->
           IF k \in DOMAIN g THEN g[k] ELSE globals[m][k]]

allGlobals(m) == LET g == IF parent[m] # NilMgr THEN allGlobals(parent[m]) ELSE EmptyMap
                 IN [k \in DOMAIN g \cup DOMAIN globals[m] |->
                        IF k \in DOMAIN globals[m] THEN globals[m][k] ELSE g[k]]

\* allGlobals as it runs on the maps: ref is the manager whose own map the
\* call returns (NilMgr for a map made by the call), val what the returned map
\* holds, heap the mappings of the managers once the call has returned.  The
\* loop writes the manager's entries into the map the parent's call returned,
\* or into a new map when there is no parent.
RECURSIVE allGlobalsRun(_)
\* Mutant: the root's call returns the root's own map, not a new one.
allGlobalsRunShared(m) ==
    LET start == IF parent[m] # NilMgr THEN allGlobalsRun(parent[m])
                 ELSE [ref |-> m, val |-> globals[m], heap |-> globals]
        own   == start.heap[m]
        val   == [k \in DOMAIN start.val \cup DOMAIN own |->
                     IF k \in DOMAIN own THEN own[k] ELSE start.val[k]]
    IN [ref |-> start.ref, val |-> val,
        heap |-> IF start.ref = NilMgr THEN start.heap
                 ELSE [start.heap EXCEPT ![start.ref] = val]]

allGlobalsRun(m) ==
    LET start == IF parent[m] # NilMgr THEN allGlobalsRun(parent[m])
                 ELSE [ref |-> NilMgr, val |-> EmptyMap, heap |-> globals]
        own   == start.heap[m]
        val   == [k \in DOMAIN start.val \cup DOMAIN own |->
                     IF k \in DOMAIN own THEN own[k] ELSE start.val[k]]
    IN [ref |-> start.ref, val |-> val,
        heap |-> IF start.ref = NilMgr THEN start.heap
                 ELSE [start.heap EXCEPT ![start.ref] = val]]

\* Mutant: only the manager's own context data is encoded.
formatOwnGlobals(m, msg) ==
    LET t  == FullTag(m)
        m1 == IF t # <<>> THEN t \o <<" ">> \o msg ELSE msg
        g  == globals[m]
    IN IF m1[Len(m1)] # NL THEN m1 \o <<NL>>
       ELSE IF Cardinality(DOMAIN g) > 0 THEN m1 \o Marshal(g) \o <<NL>>
       ELSE m1

format(m, msg) ==
    LET t  == FullTag(m)
        m1 == IF t # <<>> THEN t \o <<" ">> \o msg ELSE msg
        g  == allGlobals(m)
    IN IF m1[Len(m1)] # NL THEN m1 \o <<NL>>
       ELSE IF Cardinality(DOMAIN g) > 0 THEN m1 \o Marshal(g) \o <<NL>>
       ELSE m1

\* The range loop over m.loggers calling one write method on each.
Writes(m, meth, msg) ==
    {[i \in 1..Len(o) |-> Call(meth, loggers[m][o[i]], m, msg, "nil")] :
        o \in Orders(DOMAIN loggers[m])}

\* error, info, debug, log: the parent first, then the manager's own loggers.
\* Each yields the set of call sequences the walk may make.
RECURSIVE error(_, _)
error(m, msg) == LET up == IF parent[m] # NilMgr THEN error(parent[m], msg) ELSE {<<>>}
                 IN {a \o b : a \in up, b \in Writes(m, "Error", msg)}

\* Mutant: the message is not passed on to the parent.
infoNoParent(m, msg) == Writes(m, "Info", msg)

RECURSIVE info(_, _)
info(m, msg) == LET up == IF parent[m] # NilMgr THEN info(parent[m], msg) ELSE {<<>>}
                IN {a \o b : a \in up, b \in Writes(m, "Info", msg)}

RECURSIVE debug(_, _)
\* Mutant: the walk calls Info on the backends.
debugCallsInfo(m, msg) ==
    LET up == IF parent[m] # NilMgr THEN debug(parent[m], msg) ELSE {<<>>}
    IN {a \o b : a \in up, b \in Writes(m, "Info", msg)}

debug(m, msg) == LET up == IF parent[m] # NilMgr THEN debug(parent[m], msg) ELSE {<<>>}
                 IN {a \o b : a \in up, b \in Writes(m, "Debug", msg)}

\* Mutant: the manager's own loggers are written before the parent's.
RECURSIVE logOwnFirst(_, _)
logOwnFirst(m, msg) ==
    LET up == IF parent[m] # NilMgr THEN logOwnFirst(parent[m], msg) ELSE {<<>>}
    IN {b \o a : a \in up, b \in Writes(m, "Log", msg)}

\* Mutant: the message is also written to the loggers of the children.
RECURSIVE logAlsoChildren(_, _)
logAlsoChildren(m, msg) ==
    LET up   == IF parent[m] # NilMgr THEN logAlsoChildren(parent[m], msg) ELSE {<<>>}
        down == UNION {Writes(c, "Log", msg) : c \in children[m]}
    IN {a \o b : a \in up, b \in Writes(m, "Log", msg)}
       \cup {a \o b \o c : a \in up, b \in Writes(m, "Log", msg), c \in down}

RECURSIVE log(_, _)
log(m, msg) == LET up == IF parent[m] # NilMgr THEN log(parent[m], msg) ELSE {<<>>}
               IN {a \o b : a \in up, b \in Writes(m, "Log", msg)}

----------------------------------------------------------------------------
(* closeFromParent *)

\* The managers closeFromParent(m) visits: m and, through the children
\* mappings, everything below it.
RECURSIVE Subtree(_)
Subtree(m) == {m} \cup UNION {Subtree(c) : c \in children[m]}

\* Closing the detached loggers of m, in one order, with one outcome each:
\* the calls made and the errors appended.
\* Mutant: the loop returns at the first failing Close.
RECURSIVE CloseLoggersStopAtFailure(_, _, _)
CloseLoggersStopAtFailure(m, o, res) ==
    IF Len(o) = 0 THEN [calls |-> <<>>, errs |-> <<>>]
    ELSE LET l == loggers[m][o[1]]
         IN IF res[o[1]] # "nil"
            THEN [calls |-> <<Call("Close", l, m, <<>>, res[o[1]])>>,
                  errs  |-> <<Err(res[o[1]], l)>>]
            ELSE LET rest == CloseLoggersStopAtFailure(m, Tail(o), res)
                 IN [calls |-> <<Call("Close", l, m, <<>>, res[o[1]])>> \o rest.calls,
                     errs  |-> rest.errs]

RECURSIVE CloseLoggers(_, _, _)
CloseLoggers(m, o, res) ==
    IF Len(o) = 0 THEN [calls |-> <<>>, errs |-> <<>>]
    ELSE LET l    == loggers[m][o[1]]
             rest == CloseLoggers(m, Tail(o), res)
         IN [calls |-> <<Call("Close", l, m, <<>>, res[o[1]])>> \o rest.calls,
             errs  |-> (IF res[o[1]] # "nil" THEN <<Err(res[o[1]], l)>> ELSE <<>>)
                       \o rest.errs]

RECURSIVE closeWalk(_)
RECURSIVE CloseChildren(_)
\* Outcomes of closing the children in the order cs.
CloseChildren(cs) ==
    IF Len(cs) = 0 THEN {[calls |-> <<>>, errs |-> <<>>]}
    ELSE {[calls |-> a.calls \o b.calls, errs |-> a.errs \o b.errs] :
            a \in closeWalk(cs[1]), b \in CloseChildren(Tail(cs))}

\* The part of closeFromParent after the lock is released: every outcome
\* (calls made on backends, errors returned) of closing m's loggers and
\* then its children.
closeWalk(m) ==
    LET own == {CloseLoggers(m, o, res) :
                    o \in Orders(DOMAIN loggers[m]),
                    res \in {f \in [DOMAIN loggers[m] -> CloseOutcomes] :
                               \A i \in DOMAIN f : f[i] \in CloseResults(loggers[m][i])}}
        sub == UNION {CloseChildren(cs) : cs \in Orders(children[m])}
    IN {[calls |-> a.calls \o b.calls, errs |-> a.errs \o b.errs] : a \in own, b \in sub}

\* removeChild
removeChild(ch, p, id) == [ch EXCEPT ![p] = @ \ {id}]

\* The managers removeChild is called on by closeFromParent(fromParents) on m
\* and by the closeFromParent(true) of the managers below it.
RECURSIVE ChildPings(_, _)
RECURSIVE closePings(_, _)
\* Mutant: the children are closed with fromParents false.
closePingsAlways(m, fromParents) ==
    (IF ~fromParents /\ parent[m] # NilMgr THEN <<parent[m]>> ELSE <<>>)
    \o ChildPings(CHOOSE cs \in Orders(children[m]) : TRUE, FALSE)

closePings(m, fromParents) ==
    (IF ~fromParents /\ parent[m] # NilMgr THEN <<parent[m]>> ELSE <<>>)
    \o ChildPings(CHOOSE cs \in Orders(children[m]) : TRUE, TRUE)

ChildPings(cs, fromParents) ==
    IF Len(cs) = 0 THEN <<>>
    ELSE closePings(cs[1], fromParents) \o ChildPings(Tail(cs), fromParents)

----------------------------------------------------------------------------
(* Construction *)

\* NewManagerWithTag(t): one root.
InitWith(Ts) ==
    /\ nodes = {1}
    /\ parent = (1 :> NilMgr)
    /\ children = (1 :> {})
    /\ tag \in {(1 :> t) : t \in Ts}
    /\ globals = (1 :> EmptyMap)
    /\ loggers = (1 :> EmptyMap)
    /\ ret = NoRet
    /\ closed = {}
    /\ thr = [t \in Threads |-> Idle]
    /\ lock = (1 :> Unlocked)

----------------------------------------------------------------------------
(* Methods *)

Result(op, m) == [NoRet EXCEPT !.op = op, !.node = m]

AddGlobalData(m, key, value) ==
    /\ globals' = [globals EXCEPT ![m] =
                      [k \in DOMAIN @ \cup {key} |-> IF k = key THEN value ELSE @[k]]]
    /\ ret' = Result("AddGlobalData", m)
    /\ UNCHANGED <<nodes, parent, children, tag, loggers, closed, thr, lock>>

RemoveGlobalData(m, key) ==
    /\ globals' = [globals EXCEPT ![m] = [k \in DOMAIN @ \ {key} |-> @[k]]]
    /\ ret' = Result("RemoveGlobalData", m)
    /\ UNCHANGED <<nodes, parent, children, tag, loggers, closed, thr, lock>>

\* Mutant: the new logger silently replaces the attached one.
AddLoggersOverwrite(ls, l) ==
    [i \in DOMAIN ls \cup {LoggerID(l)} |-> IF i = LoggerID(l) THEN l ELSE ls[i]]

\* The mapping Add leaves and the error it returns.
AddLoggers(ls, l) ==
    IF LoggerID(l) \in DOMAIN ls THEN ls
    ELSE [i \in DOMAIN ls \cup {LoggerID(l)} |-> IF i = LoggerID(l) THEN l ELSE ls[i]]

AddError(ls, l) == IF LoggerID(l) \in DOMAIN ls THEN ErrAlreadyExist ELSE NoErr

Add(m, l) ==
    /\ loggers' = [loggers EXCEPT ![m] = AddLoggers(@, l)]
    /\ ret' = [Result("Add", m) EXCEPT !.arg = l, !.err = AddError(loggers[m], l)]
    /\ UNCHANGED <<nodes, parent, children, tag, globals, closed, thr, lock>>

\* delete(m.loggers, loggerID)
RemoveLoggers(ls, loggerID) == [i \in DOMAIN ls \ {loggerID} |-> ls[i]]

\* Mutant: removing an id that is not attached is reported as an error.
RemoveMissingIsError(m, loggerID) ==
    LET ok == loggerID \in DOMAIN loggers[m]
    IN /\ loggers' = [loggers EXCEPT ![m] = RemoveLoggers(@, loggerID)]
       /\ \E res \in (IF ok THEN CloseResults(loggers[m][loggerID]) ELSE {"nil"}) :
            ret' = [Result("Remove", m) EXCEPT
                      !.arg = loggerID,
                      !.calls = IF ok THEN <<Call("Close", loggers[m][loggerID], m, <<>>, res)>>
                                ELSE <<>>,
                      !.err = IF ok /\ res # "nil" THEN Err(res, loggers[m][loggerID])
                              ELSE IF ~ok THEN Err("not found", "nil")
                              ELSE NoErr]
       /\ UNCHANGED <<nodes, parent, children, tag, globals, closed, thr, lock>>

\* Mutant: the logger is deleted only once its Close has succeeded.
RemoveKeepOnFailure(m, loggerID) ==
    LET ok == loggerID \in DOMAIN loggers[m]
    IN \E res \in (IF ok THEN CloseResults(loggers[m][loggerID]) ELSE {"nil"}) :
         /\ loggers' = IF ok /\ res # "nil" THEN loggers
                       ELSE [loggers EXCEPT ![m] = RemoveLoggers(@, loggerID)]
         /\ ret' = [Result("Remove", m) EXCEPT
                      !.arg = loggerID,
                      !.calls = IF ok THEN <<Call("Close", loggers[m][loggerID], m, <<>>, res)>>
                                ELSE <<>>,
                      !.err = IF ok /\ res # "nil" THEN Err(res, loggers[m][loggerID])
                              ELSE NoErr]
         /\ UNCHANGED <<nodes, parent, children, tag, globals, closed, thr, lock>>

Remove(m, loggerID) ==
    LET ok == loggerID \in DOMAIN loggers[m]
    IN /\ loggers' = [loggers EXCEPT ![m] = RemoveLoggers(@, loggerID)]
       /\ \E res \in (IF ok THEN CloseResults(loggers[m][loggerID]) ELSE {"nil"}) :
            ret' = [Result("Remove", m) EXCEPT
                      !.arg = loggerID,
                      !.calls = IF ok THEN <<Call("Close", loggers[m][loggerID], m, <<>>, res)>>
                                ELSE <<>>,
                      !.err = IF ok /\ res # "nil" THEN Err(res, loggers[m][loggerID])
                              ELSE NoErr]
       /\ UNCHANGED <<nodes, parent, children, tag, globals, closed, thr, lock>>

\* Mutant: the parent is never told to drop the closed manager.
closeChildrenNoPing(m, fromParents) ==
    [x \in nodes |-> IF x \in Subtree(m) THEN {} ELSE children[x]]

\* The children mappings after closeFromParent(fromParents) on m.
closeChildren(m, fromParents) ==
    LET cleared == [x \in nodes |-> IF x \in Subtree(m) THEN {} ELSE children[x]]
    IN IF ~fromParents /\ parent[m] # NilMgr
       THEN removeChild(cleared, parent[m], ID(m))
       ELSE cleared

\* The loggers mappings after closeFromParent on m.
\* Mutant: the manager's own mapping is not replaced by an empty one.
closeLoggersKeepOwn(m) ==
    [x \in nodes |-> IF x \in Subtree(m) \ {m} THEN EmptyMap ELSE loggers[x]]

closeLoggers(m) == [x \in nodes |-> IF x \in Subtree(m) THEN EmptyMap ELSE loggers[x]]

\* Mutant: the closed manager forgets its parent.
CloseForgetsParent(m) ==
    /\ loggers' = closeLoggers(m)
    /\ children' = closeChildren(m, FALSE)
    /\ closed' = closed \cup Subtree(m)
    /\ parent' = [parent EXCEPT ![m] = NilMgr]
    /\ \E out \in closeWalk(m) :
         ret' = [Result("Close", m) EXCEPT
                   !.calls = out.calls, !.errs = out.errs, !.pings = closePings(m, FALSE)]
    /\ UNCHANGED <<nodes, tag, globals, thr, lock>>

\* Mutant: the closed manager also loses its tag.
CloseDropsTag(m) ==
    /\ loggers' = closeLoggers(m)
    /\ children' = closeChildren(m, FALSE)
    /\ closed' = closed \cup Subtree(m)
    /\ tag' = [tag EXCEPT ![m] = <<>>]
    /\ \E out \in closeWalk(m) :
         ret' = [Result("Close", m) EXCEPT
                   !.calls = out.calls, !.errs = out.errs, !.pings = closePings(m, FALSE)]
    /\ UNCHANGED <<nodes, parent, globals, thr, lock>>

Close(m) ==
    /\ loggers' = closeLoggers(m)
    /\ children' = closeChildren(m, FALSE)
    /\ closed' = closed \cup Subtree(m)
    /\ \E out \in closeWalk(m) :
         ret' = [Result("Close", m) EXCEPT
                   !.calls = out.calls, !.errs = out.errs, !.pings = closePings(m, FALSE)]
    /\ UNCHANGED <<nodes, parent, tag, globals, thr, lock>>

\* Mutant: the sub-manager's tag starts with the tag of the manager.
NewSubManagerInheritTag(m, t) ==
    LET sm == Cardinality(nodes) + 1
    IN /\ Cardinality(nodes) < MaxNodes
       /\ nodes' = nodes \cup {sm}
       /\ parent' = parent @@ (sm :> m)
       /\ children' = [children EXCEPT ![m] = @ \cup {sm}] @@ (sm :> {})
       /\ tag' = tag @@ (sm :> tag[m] \o t)
       /\ globals' = globals @@ (sm :> EmptyMap)
       /\ loggers' = loggers @@ (sm :> EmptyMap)
       /\ lock' = lock @@ (sm :> Unlocked)
       /\ ret' = [Result("NewSubManager", m) EXCEPT !.arg = t, !.sub = sm]
       /\ UNCHANGED <<closed, thr>>

\* Mutant: the sub-manager is not put in the children mapping.
NewSubManagerUnregistered(m, t) ==
    LET sm == Cardinality(nodes) + 1
    IN /\ Cardinality(nodes) < MaxNodes
       /\ nodes' = nodes \cup {sm}
       /\ parent' = parent @@ (sm :> m)
       /\ children' = children @@ (sm :> {})
       /\ tag' = tag @@ (sm :> t)
       /\ globals' = globals @@ (sm :> EmptyMap)
       /\ loggers' = loggers @@ (sm :> EmptyMap)
       /\ lock' = lock @@ (sm :> Unlocked)
       /\ ret' = [Result("NewSubManager", m) EXCEPT !.arg = t, !.sub = sm]
       /\ UNCHANGED <<closed, thr>>

NewSubManager(m, t) ==
    LET sm == Cardinality(nodes) + 1
    IN /\ Cardinality(nodes) < MaxNodes
       /\ nodes' = nodes \cup {sm}
       /\ parent' = parent @@ (sm :> m)
       /\ children' = [children EXCEPT ![m] = @ \cup {sm}] @@ (sm :> {})
       /\ tag' = tag @@ (sm :> t)
       /\ globals' = globals @@ (sm :> EmptyMap)
       /\ loggers' = loggers @@ (sm :> EmptyMap)
       /\ lock' = lock @@ (sm :> Unlocked)
       /\ ret' = [Result("NewSubManager", m) EXCEPT !.arg = t, !.sub = sm]
       /\ UNCHANGED <<closed, thr>>

SetTag(m, t) ==
    /\ tag' = [tag EXCEPT ![m] = t]
    /\ ret' = Result("SetTag", m)
    /\ UNCHANGED <<nodes, parent, children, globals, loggers, closed, thr, lock>>

GetTag(m) ==
    /\ ret' = [Result("Tag", m) EXCEPT !.val = Tag(m)]
    /\ UNCHANGED <<mgr, closed, thr, lock>>

GetFullTag(m) ==
    /\ ret' = [Result("FullTag", m) EXCEPT !.val = FullTag(m)]
    /\ UNCHANGED <<mgr, closed, thr, lock>>

\* A logging method: the message msg is composed once by format (whose
\* allGlobals leaves the mappings as its loops wrote them), then delivered
\* along one of the traces the walk may make; each backend called records the
\* line its write builds.
Logged(op, m, args, msg, traces) ==
    /\ \E c \in traces :
         ret' = [Result(op, m) EXCEPT
                   !.args = args, !.val = msg, !.calls = c,
                   !.data = [i \in DOMAIN c |-> write(c[i].msg, MethodLevel(c[i].m))]]
    /\ globals' = allGlobalsRun(m).heap
    /\ UNCHANGED <<nodes, parent, children, tag, loggers, closed, thr, lock>>

Error(m, args) ==
    \E msg \in {format(m, Sprintln(args))} : Logged("Error", m, args, msg, error(m, msg))

\* Errorf(f, a...) is Error(fmt.Sprintf(f, a...)); s is what Sprintf returned.
Errorf(m, s) ==
    \E msg \in {format(m, Sprintln(<<s>>))} : Logged("Errorf", m, <<s>>, msg, error(m, msg))

Info(m, args) ==
    \E msg \in {format(m, Sprintln(args))} : Logged("Info", m, args, msg, info(m, msg))

Infof(m, s) ==
    \E msg \in {format(m, Sprintln(<<s>>))} : Logged("Infof", m, <<s>>, msg, info(m, msg))

Debug(m, args) ==
    \E msg \in {format(m, Sprintln(args))} : Logged("Debug", m, args, msg, debug(m, msg))

Debugf(m, s) ==
    \E msg \in {format(m, Sprintln(<<s>>))} : Logged("Debugf", m, <<s>>, msg, debug(m, msg))

Log(m, args) ==
    \E msg \in {format(m, Sprintln(args))} : Logged("Log", m, args, msg, log(m, msg))

Logf(m, s) ==
    \E msg \in {format(m, Sprintln(<<s>>))} : Logged("Logf", m, <<s>>, msg, log(m, msg))

----------------------------------------------------------------------------
(* Specifications.  Every specification starts from one root manager and   *)
(* differs in the methods it calls and the inputs it draws, so that each    *)
(* stays small enough to explore exhaustively.                              *)

TA == <<"a">>

TB == <<"b">>

Roots == {m \in nodes : parent[m] = NilMgr}

\* Logging through the tree: backends l1 and l3 attached at any level, sub-managers tagged "a" under an untagged root, context data on
\* the root, and the eight logging methods on any manager.
Init == InitWith({<<>>})

Next ==
    \/ \E r \in Roots : AddGlobalData(r, <<"k">>, <<"v">>)
    \/ \E m \in nodes :
        \/ NewSubManager(m, TA)
        \/ \E l \in {"l1", "l3"} : Add(m, l)
        \/ \E a \in {<< <<"x">>, <<"y">> >>} :
              Error(m, a) \/ Info(m, a) \/ Debug(m, a) \/ Log(m, a)
        \/ \E s \in {<<"x">>} :
              Errorf(m, s) \/ Infof(m, s) \/ Debugf(m, s) \/ Logf(m, s)

Spec == Init /\ [][Next]_vars

\* Attaching and detaching: three backends, two of them sharing an id.
NextAdd ==
    \E m \in nodes :
        \/ NewSubManager(m, <<>>)
        \/ \E l \in Loggers : Add(m, l)
        \/ \E i \in LoggerIDs : Remove(m, i)
        \/ Log(m, << <<"x">> >>)

SpecAdd == InitWith({<<>>}) /\ [][NextAdd]_vars

\* Closing: backends l1 and l3 at any level, Close on any manager.
NextClose ==
    \E m \in nodes :
        \/ NewSubManager(m, <<>>)
        \/ \E l \in {"l1", "l3"} : Add(m, l)
        \/ Close(m)

SpecClose == InitWith({<<>>}) /\ [][NextClose]_vars

\* Tags: any of three tags at construction and by SetTag, Close included.
TagInputs == {<<>>, TA, TB}

NextTag ==
    \E m \in nodes :
        \/ \E t \in TagInputs : NewSubManager(m, t) \/ SetTag(m, t)
        \/ Close(m)
        \/ GetTag(m)
        \/ GetFullTag(m)

SpecTag == InitWith(TagInputs) /\ [][NextTag]_vars

\* Context data: two keys and two values on any manager, then Log.
KeyInputs == {<<"j">>, <<"k">>}

ValueInputs == {<<"v">>, <<"w">>}

NextCtx ==
    \E m \in nodes :
        \/ NewSubManager(m, <<>>)
        \/ \E k \in KeyInputs :
              \/ RemoveGlobalData(m, k)
              \/ \E v \in ValueInputs : AddGlobalData(m, k, v)
        \/ Log(m, << <<"x">> >>)

SpecCtx == InitWith({<<>>}) /\ [][NextCtx]_vars

\* Message composition: a root tagged or not holding l1, sub-managers tagged
\* "a", context keys j and k on the root and k on the sub-managers, and the
\* eight logging methods with no operand, two operands, or a Sprintf result
\* that ends in a newline or not.
ArgInputs == {<<>>, << <<"x">>, <<"y">> >>}

SprintfInputs == {<<"x">>, <<"x", NL>>}

NextFmt ==
    \/ \E r \in Roots : Add(r, "l1")
    \/ \E m \in nodes :
        \/ NewSubManager(m, TA)
        \/ \E k \in (IF parent[m] = NilMgr THEN KeyInputs ELSE {<<"k">>}) :
              AddGlobalData(m, k, IF parent[m] = NilMgr THEN <<"v">> ELSE <<"w">>)
        \/ \E a \in ArgInputs :
              Error(m, a) \/ Info(m, a) \/ Debug(m, a) \/ Log(m, a)
        \/ \E s \in SprintfInputs :
              Errorf(m, s) \/ Infof(m, s) \/ Debugf(m, s) \/ Logf(m, s)

SpecFmt == InitWith({<<>>, TA}) /\ [][NextFmt]_vars

\* Use after Close: a tagged root with context data, sub-managers tagged "b",
\* backends l1 and l2 (one id) at any level, Close and Log on any manager.
NextReuse ==
    \/ \E r \in Roots : AddGlobalData(r, <<"k">>, <<"v">>)
    \/ \E m \in nodes :
        \/ NewSubManager(m, TB)
        \/ \E l \in {"l1", "l2"} : Add(m, l)
        \/ Close(m)
        \/ Log(m, << <<"x">> >>)

SpecReuse == InitWith({TA}) /\ [][NextReuse]_vars

----------------------------------------------------------------------------
(* Vocabulary of the properties *)

LogMethods == {"Error", "Errorf", "Info", "Infof", "Debug", "Debugf", "Log", "Logf"}

WriteMethods == {"Error", "Info", "Debug", "Log"}

\* The last call was a logging call.
IsLog == ret.op \in LogMethods

\* The managers from the root down to n.
RECURSIVE PathTo(_)
PathTo(n) == IF parent[n] = NilMgr THEN <<n>> ELSE PathTo(parent[n]) \o <<n>>

OnPath(n) == {PathTo(n)[i] : i \in 1..Len(PathTo(n))}

ProperAncestors(n) == OnPath(n) \ {n}

\* The backends in the loggers mapping of a.
AttachedAt(a) == {loggers[a][i] : i \in DOMAIN loggers[a]}

AttachedOnPath(n) == UNION {AttachedAt(a) : a \in OnPath(n)}

\* The calls of the last operation made on backend l, and those made on it
\* while visiting manager a.
CallsOn(l) == {i \in DOMAIN ret.calls : ret.calls[i].l = l}

CallsAt(a, l) == {i \in DOMAIN ret.calls : ret.calls[i].at = a /\ ret.calls[i].l = l}

\* The tags on the path, root first, with nothing in between.
RECURSIVE ConcatTags(_)
ConcatTags(p) == IF Len(p) = 0 THEN <<>> ELSE tag[p[1]] \o ConcatTags(Tail(p))

PathTag(n) == ConcatTags(PathTo(n))

\* The context of n: for each key set on the path, the value set nearest to n.
PathKeys(n) == UNION {DOMAIN globals[a] : a \in OnPath(n)}

Nearest(n, k) ==
    LET p == PathTo(n)
        i == CHOOSE i \in 1..Len(p) :
                /\ k \in DOMAIN globals[p[i]]
                /\ \A j \in (i + 1)..Len(p) : k \notin DOMAIN globals[p[j]]
    IN globals[p[i]][k]

MergedContext(n) == [k \in PathKeys(n) |-> Nearest(n, k)]

\* The message a logging call on n with operands args is to deliver.
ComposedMessage(n, args) ==
    LET line == (IF PathTag(n) # <<>> THEN PathTag(n) \o <<" ">> ELSE <<>>)
                \o JoinSpace(args) \o <<NL>>
    IN IF PathKeys(n) # {} THEN line \o Marshal(MergedContext(n)) \o <<NL>> ELSE line

----------------------------------------------------------------------------
(* Delivery: C1, C2, C3 (specification Spec) *)

\* C1 as stated: after a logging call on N, every backend attached to N or to
\* an ancestor of N has received exactly one write, and every write carries
\* the string composed from N's full tag and N's merged context.
C1_OneWritePerBackend ==
    IsLog =>
        /\ \A l \in AttachedOnPath(ret.node) : Cardinality(CallsOn(l)) = 1
        /\ \A i \in DOMAIN ret.calls :
              ret.calls[i].msg = ComposedMessage(ret.node, ret.args)

\* C1 as amended: after a logging call on N, every backend has received
\* exactly one write for each manager on the path from the root to N it is
\* attached to (so a backend attached at two levels is written twice), nothing
\* else was called, and every write carries the one string composed from N's
\* full tag and N's merged context.
C1_OneWritePerAttachment ==
    IsLog =>
        /\ \A a \in OnPath(ret.node) : \A l \in AttachedAt(a) :
              Cardinality(CallsAt(a, l)) = 1
        /\ \A i \in DOMAIN ret.calls :
              /\ ret.calls[i].at \in OnPath(ret.node)
              /\ ret.calls[i].l \in AttachedAt(ret.calls[i].at)
              /\ ret.calls[i].m \in WriteMethods
              /\ ret.calls[i].msg = ComposedMessage(ret.node, ret.args)
        /\ ret.val = ComposedMessage(ret.node, ret.args)

\* Infof on a tagged sub-manager holding l1 and l3, whose parent holds l1 too,
\* under a root with context data: three writes.
C1_Witness ==
    /\ ret.op = "Infof"
    /\ parent[ret.node] # NilMgr
    /\ AttachedAt(ret.node) = {"l1", "l3"}
    /\ "l1" \in AttachedAt(parent[ret.node])
    /\ PathKeys(ret.node) # {}
    /\ Len(ret.calls) = 3

\* C2: the writes of a logging call are made root first: no write made at a
\* manager comes after a write made at a manager below it on the path, so the
\* backends of the manager the call was made on are written last.
C2_RootFirst ==
    IsLog =>
        \A i, j \in DOMAIN ret.calls :
            i < j => ret.calls[j].at \notin ProperAncestors(ret.calls[i].at)

\* Log on a manager two levels below the root, with backends at all three levels.
C2_Witness ==
    /\ ret.op = "Log"
    /\ Len(PathTo(ret.node)) = 3
    /\ \A a \in OnPath(ret.node) : \E i \in DOMAIN ret.calls : ret.calls[i].at = a

\* C3: a logging call on N writes to no backend that is attached only to
\* managers off the path from the root to N (descendants, siblings).
C3_NoWriteOffPath ==
    IsLog =>
        /\ \A l \in Loggers : l \notin AttachedOnPath(ret.node) => CallsOn(l) = {}
        /\ \A i \in DOMAIN ret.calls : ret.calls[i].at \in OnPath(ret.node)

\* Log on a root holding l1 whose sub-manager holds l3: l1 is written, l3 is not.
C3_Witness ==
    /\ ret.op = "Log"
    /\ parent[ret.node] = NilMgr
    /\ AttachedAt(ret.node) = {"l1"}
    /\ \E c \in children[ret.node] : AttachedAt(c) = {"l3"}
    /\ CallsOn("l1") # {}
    /\ CallsOn("l3") = {}

----------------------------------------------------------------------------
(* Attaching and detaching: C4, C7, C8 (specification SpecAdd) *)

\* C4: an Add of a logger whose id the manager already holds returns
\* ErrAlreadyExist and changes no loggers mapping, so the id still names the
\* logger attached first; and a Log on a manager writes to every logger its
\* mapping holds.
C4_AddStep ==
    /\ (ret'.op = "Add" /\ LoggerID(ret'.arg) \in DOMAIN loggers[ret'.node]) =>
          /\ ret'.err = ErrAlreadyExist
          /\ loggers' = loggers
    /\ ret'.op = "Log" =>
          \A i \in DOMAIN loggers[ret'.node] :
              \E c \in DOMAIN ret'.calls :
                  /\ ret'.calls[c].l = loggers[ret'.node][i]
                  /\ ret'.calls[c].at = ret'.node

C4_AddDuplicate == [][C4_AddStep]_vars

\* Add of l2 refused on a manager that holds l1 under the same id.
C4_Witness ==
    /\ ret.op = "Add"
    /\ ret.arg = "l2"
    /\ ret.err = ErrAlreadyExist
    /\ loggers[ret.node][LoggerID("l2")] = "l1"

\* C7: Remove of an id the manager does not hold returns no error, calls no
\* backend and changes no loggers mapping.
C7_RemoveStep ==
    (ret'.op = "Remove" /\ ret'.arg \notin DOMAIN loggers[ret'.node]) =>
        /\ ret'.err = NoErr
        /\ ret'.calls = <<>>
        /\ loggers' = loggers

C7_RemoveAbsent == [][C7_RemoveStep]_vars

\* Remove of an id not held, on a manager that holds a logger under another id.
C7_Witness ==
    /\ ret.op = "Remove"
    /\ ret.calls = <<>>
    /\ ret.err = NoErr
    /\ DOMAIN loggers[ret.node] # {}

\* C8: Remove of an id the manager holds deletes that entry and no other,
\* whether or not Close fails, calls Close once on that logger and nothing
\* else, and returns an Err holding the failure and the logger when Close
\* fails, nil otherwise.
C8_RemoveStep ==
    LET n == ret'.node
        l == loggers[n][ret'.arg]
    IN (ret'.op = "Remove" /\ ret'.arg \in DOMAIN loggers[n]) =>
        /\ DOMAIN loggers'[n] = DOMAIN loggers[n] \ {ret'.arg}
        /\ \A i \in DOMAIN loggers'[n] : loggers'[n][i] = loggers[n][i]
        /\ \A x \in nodes \ {n} : loggers'[x] = loggers[x]
        /\ Len(ret'.calls) = 1
        /\ ret'.calls[1].m = "Close"
        /\ ret'.calls[1].l = l
        /\ ret'.calls[1].res = "nil" => ret'.err = NoErr
        /\ ret'.calls[1].res # "nil" => ret'.err = Err(ret'.calls[1].res, l)

C8_RemovePresent == [][C8_RemoveStep]_vars

\* Remove of l3 whose Close failed, on a manager that still holds l2.
C8_Witness ==
    /\ ret.op = "Remove"
    /\ ret.err = Err("close failed", "l3")
    /\ AttachedAt(ret.node) = {"l2"}

----------------------------------------------------------------------------
(* Closing: C5, C6 (specification SpecClose) *)

\* The managers reachable from n through the children mappings.
RECURSIVE LiveUnder(_, _)
LiveUnder(x, n) ==
    \/ x = n
    \/ /\ parent[x] # NilMgr
       /\ x \in children[parent[x]]
       /\ LiveUnder(parent[x], n)

Below(n) == {x \in nodes : LiveUnder(x, n)}

\* Every logger held at or below n before the step has a Close among the calls.
AllClosed(n) ==
    \A x \in Below(n) : \A l \in AttachedAt(x) :
        \E c \in DOMAIN ret'.calls :
            /\ ret'.calls[c].m = "Close"
            /\ ret'.calls[c].l = l
            /\ ret'.calls[c].at = x

\* C5: once Close has returned on N, N is in the children mapping of no
\* parent, every logger that was held by N or by a manager below N has been
\* closed, and the loggers and children mappings of N and of every manager
\* that was below N are empty.
C5_CloseStep ==
    LET n == ret'.node
    IN ret'.op = "Close" =>
        /\ parent[n] # NilMgr => n \notin children'[parent[n]]
        /\ AllClosed(n)
        /\ \A x \in Below(n) : loggers'[x] = EmptyMap /\ children'[x] = {}

C5_CloseEmpties == [][C5_CloseStep]_vars

\* Close on a sub-manager that had a logger and a child with a logger.
C5_Witness ==
    /\ ret.op = "Close"
    /\ parent[ret.node] # NilMgr
    /\ ret.node \notin children[parent[ret.node]]
    /\ \E i, j \in DOMAIN ret.calls :
          /\ ret.calls[i].at = ret.node
          /\ ret.calls[j].at # ret.node
          /\ parent[ret.calls[j].at] = ret.node

\* The Err values of the failed calls, in the order of the calls.
RECURSIVE FailedErrs(_)
FailedErrs(calls) ==
    IF Len(calls) = 0 THEN <<>>
    ELSE (IF calls[1].res # "nil" THEN <<Err(calls[1].res, calls[1].l)>> ELSE <<>>)
         \o FailedErrs(Tail(calls))

\* The number of entries of all loggers mappings at or below n.
RECURSIVE CountHeld(_)
CountHeld(S) ==
    IF S = {} THEN 0
    ELSE LET x == CHOOSE x \in S : TRUE
         IN Cardinality(DOMAIN loggers[x]) + CountHeld(S \ {x})

\* C6 as stated: the list Close returns holds exactly one Err for each backend
\* whose Close failed, and none for the others.
C6_OneErrPerBackend ==
    ret.op = "Close" =>
        \A l \in Loggers :
            Cardinality({i \in DOMAIN ret.errs : ret.errs[i].Logger = l})
              = IF \E c \in DOMAIN ret.calls : ret.calls[c].l = l /\ ret.calls[c].res # "nil"
                THEN 1 ELSE 0

\* C6 as amended: Close on N calls Close once for every entry of the loggers
\* mappings of N and of the managers below N, whatever fails, and returns
\* exactly one Err for each of those calls that failed, holding the failure
\* and the backend (so a backend held at two levels whose Close fails twice is
\* named twice); the list is empty when no call failed.
C6_CloseStep ==
    LET n == ret'.node
    IN ret'.op = "Close" =>
        /\ AllClosed(n)
        /\ Len(ret'.calls) = CountHeld(Below(n))
        /\ ret'.errs = FailedErrs(ret'.calls)

C6_CloseCollects == [][C6_CloseStep]_vars

\* A Close with a failed call followed by calls on another manager, one of
\* which succeeded and one of which failed.
C6_Witness ==
    /\ ret.op = "Close"
    /\ Len(ret.errs) = 2
    /\ \E i, j, k \in DOMAIN ret.calls :
          /\ i < j /\ i < k
          /\ ret.calls[i].res # "nil"
          /\ ret.calls[j].res = "nil"
          /\ ret.calls[k].res # "nil"
          /\ ret.calls[j].at # ret.calls[i].at

----------------------------------------------------------------------------
(* Tags: C9 (specification SpecTag) *)

\* C9: FullTag on a sub-manager returns its parent's full tag followed by its
\* own tag, FullTag on a root returns its tag; that is, the tags on the path
\* from the root, concatenated.
C9_FullTagIsPathTag ==
    ret.op = "FullTag" =>
        /\ ret.val = PathTag(ret.node)
        /\ parent[ret.node] = NilMgr => ret.val = Tag(ret.node)
        /\ parent[ret.node] # NilMgr =>
              ret.val = PathTag(parent[ret.node]) \o Tag(ret.node)

\* FullTag two levels below the root, with tags b, a, b.
C9_Witness ==
    /\ ret.op = "FullTag"
    /\ Len(PathTo(ret.node)) = 3
    /\ ret.val = <<"b", "a", "b">>
    /\ tag[ret.node] = TB

----------------------------------------------------------------------------
(* Context data: C10 (specification SpecCtx) *)

\* C10: the context a Log on N puts in the message holds, for every key set
\* on N or on an ancestor, the value set nearest to N, as the mappings stand
\* when Log is called.
C10_MergedContext ==
    ret.op = "Log" =>
        /\ ret.val = ComposedMessage(ret.node, ret.args)
        /\ allGlobals(ret.node) = MergedContext(ret.node)

\* Log on a sub-manager that sets k to w under a root that sets k to v and j.
C10_Witness ==
    /\ ret.op = "Log"
    /\ parent[ret.node] # NilMgr
    /\ <<"k">> \in DOMAIN globals[ret.node]
    /\ globals[ret.node][<<"k">>] = <<"w">>
    /\ DOMAIN globals[parent[ret.node]] = {<<"j">>, <<"k">>}
    /\ globals[parent[ret.node]][<<"k">>] = <<"v">>

----------------------------------------------------------------------------
(* Message text: C11, C12 (specification SpecFmt) *)

\* The severity prefix the reference backends put before the message.
SeverityPrefix(op) ==
    CASE op \in {"Error", "Errorf"} -> <<"[", "E", "R", "R", "O", "R", "]">>
      [] op \in {"Info", "Infof"}   -> <<"[", "I", "N", "F", "O", "]">>
      [] op \in {"Debug", "Debugf"} -> <<"[", "D", "E", "B", "U", "G", "]">>
      [] OTHER -> <<>>

\* The message line of a logging call on n: the full tag and one space when
\* the full tag is not empty, the operands joined by spaces, one newline.
MessageLine(n, args) ==
    (IF PathTag(n) # <<>> THEN PathTag(n) \o <<" ">> ELSE <<>>)
    \o JoinSpace(args) \o <<NL>>

\* C11: when no context data is set on N or above, a logging call on N
\* delivers to every backend it calls the message line (full tag and a space
\* if the tag is not empty, the space-joined operands, a newline), and the
\* reference backends record that string with [ERROR], [INFO] or [DEBUG] put
\* directly before it, and unchanged for Log and Logf.
C11_PlainMessage ==
    (IsLog /\ PathKeys(ret.node) = {}) =>
        /\ ret.val = MessageLine(ret.node, ret.args)
        /\ \A i \in DOMAIN ret.calls :
              /\ ret.calls[i].msg = MessageLine(ret.node, ret.args)
              /\ ret.data[i] = SeverityPrefix(ret.op) \o MessageLine(ret.node, ret.args)

\* Error("x", "y") on a sub-manager tagged a of a root tagged a holding l1,
\* no context data: l1 records [ERROR]aa x y.
C11_Witness ==
    /\ ret.op = "Error"
    /\ PathKeys(ret.node) = {}
    /\ Len(ret.data) = 1
    /\ ret.data[1] = <<"[", "E", "R", "R", "O", "R", "]", "a", "a", " ", "x", " ", "y", NL>>

\* C12: a logging call on N delivers the message line followed, when context
\* data is set on N or above, by the JSON object of the merged context of N
\* and a newline, and by nothing when no context data is set.
C12_ContextAppended ==
    IsLog =>
        LET line == MessageLine(ret.node, ret.args)
            msg  == IF PathKeys(ret.node) # {}
                    THEN line \o Marshal(MergedContext(ret.node)) \o <<NL>>
                    ELSE line
        IN /\ ret.val = msg
           /\ \A i \in DOMAIN ret.calls : ret.calls[i].msg = msg

\* Log("x", "y") on an untagged root's sub-manager that sets k to w, the root
\* setting j and k to v: the line, then {"j":"v","k":"w"}.
C12_Witness ==
    /\ ret.op = "Log"
    /\ Len(ret.calls) = 1
    /\ ret.calls[1].msg = <<"a", " ", "x", " ", "y", NL,
                            "{", QUOTE, "j", QUOTE, ":", QUOTE, "v", QUOTE, ",",
                                 QUOTE, "k", QUOTE, ":", QUOTE, "w", QUOTE, "}", NL>>

----------------------------------------------------------------------------
(* Severity: C13 (specification Spec) *)

\* The backend method a logging method selects.
SelectedMethod(op) ==
    CASE op \in {"Error", "Errorf"} -> "Error"
      [] op \in {"Info", "Infof"}   -> "Info"
      [] op \in {"Debug", "Debugf"} -> "Debug"
      [] op \in {"Log", "Logf"}     -> "Log"

\* C13: every call a logging call makes is a call of the backend method its
\* severity selects, and whatever the severity every entry of the loggers
\* mapping of every manager on the path to the root gets such a call.
C13_SeveritySelectsMethod ==
    IsLog =>
        /\ \A i \in DOMAIN ret.calls : ret.calls[i].m = SelectedMethod(ret.op)
        /\ \A a \in OnPath(ret.node) : \A k \in DOMAIN loggers[a] :
              \E i \in DOMAIN ret.calls :
                  /\ ret.calls[i].at = a
                  /\ ret.calls[i].l = loggers[a][k]
                  /\ ret.calls[i].m = SelectedMethod(ret.op)

\* Debugf two levels below the root with backends at the three levels.
C13_Witness ==
    /\ ret.op = "Debugf"
    /\ Len(PathTo(ret.node)) = 3
    /\ \A a \in OnPath(ret.node) :
          \E i \in DOMAIN ret.calls : ret.calls[i].at = a /\ ret.calls[i].m = "Debug"

----------------------------------------------------------------------------
(* Sub-managers: C14 (specification SpecFmt), C18 (specification SpecTag) *)

\* C14: NewSubManager(tag) on P returns a manager that did not exist, with
\* the given tag, parent P and empty loggers, children and context mappings;
\* P's children mapping gains that manager and nothing else, and no other
\* field of P or of any other manager changes.
C14_NewSubManagerStep ==
    LET p  == ret'.node
        sm == ret'.sub
    IN ret'.op = "NewSubManager" =>
        /\ sm \notin nodes
        /\ nodes' = nodes \cup {sm}
        /\ ID(sm) \notin {ID(x) : x \in nodes}
        /\ tag'[sm] = ret'.arg
        /\ parent'[sm] = p
        /\ loggers'[sm] = EmptyMap
        /\ children'[sm] = {}
        /\ globals'[sm] = EmptyMap
        /\ children'[p] = children[p] \cup {sm}
        /\ \A x \in nodes :
              /\ x # p => children'[x] = children[x]
              /\ tag'[x] = tag[x]
              /\ parent'[x] = parent[x]
              /\ loggers'[x] = loggers[x]
              /\ globals'[x] = globals[x]

C14_NewSubManagerFrame == [][C14_NewSubManagerStep]_vars

\* NewSubManager("a") on a tagged root that holds a backend, context data
\* and a child already.
C14_Witness ==
    /\ ret.op = "NewSubManager"
    /\ ret.arg = TA
    /\ tag[ret.node] = TA
    /\ tag[ret.sub] = TA
    /\ Cardinality(children[ret.node]) = 2
    /\ DOMAIN loggers[ret.node] # {}
    /\ DOMAIN globals[ret.node] # {}

\* C18: the children mapping of every manager holds exactly the managers
\* that NewSubManager created from it and that closeFromParent has not run
\* on (neither through their own Close nor through an ancestor's).
C18_ChildrenAreLive ==
    \A p \in nodes : children[p] = {c \in nodes : parent[c] = p /\ c \notin closed}

\* A closed manager that got a new sub-manager after its Close, next to a
\* manager still in its own parent's mapping.
C18_Witness ==
    \E p \in closed : \E c \in nodes :
        /\ parent[c] = p
        /\ c \in children[p]
        /\ parent[p] # NilMgr
        /\ p \notin children[parent[p]]

----------------------------------------------------------------------------
(* Close: C19, C20 (specification SpecClose) *)

\* C19: Close on N changes, outside the managers reached from N through the
\* children mappings, only the children mapping of N's parent, which loses N
\* and nothing else; removeChild is called once, on N's parent, when N has a
\* parent and never otherwise, so no manager closed below N calls it; every
\* backend closed was held by N or below.
C19_CloseStep ==
    LET n == ret'.node
    IN ret'.op = "Close" =>
        /\ \A x \in nodes \ Subtree(n) :
              /\ loggers'[x] = loggers[x]
              /\ children'[x] = IF x = parent[n] THEN children[x] \ {n} ELSE children[x]
        /\ nodes' = nodes /\ parent' = parent /\ tag' = tag /\ globals' = globals
        /\ ret'.pings = IF parent[n] # NilMgr THEN <<parent[n]>> ELSE <<>>
        /\ \A i \in DOMAIN ret'.calls :
              /\ ret'.calls[i].at \in Subtree(n)
              /\ ret'.calls[i].m = "Close"

C19_CloseFrame == [][C19_CloseStep]_vars

\* Close on a sub-manager with a backend and a child with a backend, whose
\* parent keeps its own backend: one removeChild, on the parent.
C19_Witness ==
    /\ ret.op = "Close"
    /\ parent[ret.node] # NilMgr
    /\ ret.pings = <<parent[ret.node]>>
    /\ DOMAIN loggers[parent[ret.node]] # {}
    /\ \E i, j \in DOMAIN ret.calls :
          /\ ret.calls[i].at = ret.node
          /\ parent[ret.calls[j].at] = ret.node

\* C20: a Close on a manager right after a Close on the same manager calls
\* Close on no backend, returns no error and leaves every manager as it was.
C20_SecondCloseStep ==
    (ret.op = "Close" /\ ret'.op = "Close" /\ ret'.node = ret.node) =>
        /\ ret'.calls = <<>>
        /\ ret'.errs = <<>>
        /\ mgr' = mgr

C20_CloseTwice == [][C20_SecondCloseStep]_vars

\* A Close that closed nothing, on a closed sub-manager whose parent still
\* holds a backend.
C20_Witness ==
    /\ ret.op = "Close"
    /\ ret.node \in closed
    /\ ret.calls = <<>>
    /\ parent[ret.node] # NilMgr
    /\ DOMAIN loggers[parent[ret.node]] # {}

----------------------------------------------------------------------------
(* Threads.  The methods run statement by statement: a step is the taking  *)
(* of a lock, or the statements up to the next lock operation or backend    *)
(* call.  The tree is first built by calls made one at a time (managers,    *)
(* backend l1), then every thread calls one method.                         *)

\* Number of managers in a run with threads.
MaxConcNodes == 2

\* The locks thread t holds.
Held(t) == {n \in nodes : lock[n].w = t \/ t \in lock[n].r}

\* The Go runtime has not ended the process.
Running == \A t \in Threads : thr[t].pc # "fatal"

NotStarted == \A t \in Threads : thr[t].pc = "idle"

\* Thread t is at statement pc of a process that is running.
At(t, pc) == Running /\ thr[t].pc = pc

\* RWMutex.Lock by t on n, continuing as nxt: taken at once when there is no
\* holder; otherwise t waits, and while it waits no reader is let in.
Lock(t, n, nxt) ==
    IF lock[n].w = NoThread /\ lock[n].r = {}
    THEN /\ lock' = [lock EXCEPT ![n] = [w |-> t, r |-> {}, q |-> @.q \ {t}]]
         /\ thr' = [thr EXCEPT ![t] = nxt]
    ELSE /\ t \notin lock[n].q
         /\ lock' = [lock EXCEPT ![n].q = @ \cup {t}]
         /\ UNCHANGED thr

\* RWMutex.RLock: blocked by a writer holding or waiting.
RLock(t, n, nxt) ==
    /\ lock[n].w = NoThread
    /\ lock[n].q = {}
    /\ lock' = [lock EXCEPT ![n].r = @ \cup {t}]
    /\ thr' = [thr EXCEPT ![t] = nxt]

Unlock(t, n) == [lock EXCEPT ![n].w = NoThread]

RUnlock(t, n) == [lock EXCEPT ![n].r = @ \ {t}]

\* The manager below at on the way down to n.
NextDown(n, at) ==
    LET p == PathTo(n)
        i == CHOOSE i \in 1..Len(p) : p[i] = at
    IN p[i + 1]

LockFirst == {"AddGlobalData", "RemoveGlobalData", "SetTag", "Add", "Remove",
              "NewSubManager", "Close"}

\* Thread t calls method op on m.
Invoke(t, op, m, arg) ==
    /\ At(t, "idle")
    /\ op = "NewSubManager" =>
          Cardinality(nodes) + Cardinality({u \in Threads : thr[u].op = op /\ thr[u].pc # "done"})
            < MaxConcNodes
    /\ thr' = [thr EXCEPT ![t] =
                  [Idle EXCEPT !.op = op, !.node = m, !.at = m, !.arg = arg,
                               !.pc = IF op \in LockFirst THEN "Lock" ELSE "TagRLock"]]
    /\ UNCHANGED <<mgr, ret, closed, lock>>

\* m.Lock() opening a method or closeFromParent.
LockManager(t) ==
    /\ At(t, "Lock")
    /\ Lock(t, thr[t].at, [thr[t] EXCEPT !.pc = "Locked"])
    /\ UNCHANGED <<mgr, ret, closed>>

Locked(t, op) == At(t, "Locked") /\ thr[t].op = op

Return(t) == [thr EXCEPT ![t].pc = "done"]

AddGlobalDataLocked(t) ==
    LET m == thr[t].node
        key == thr[t].arg[1]
        value == thr[t].arg[2]
    IN /\ Locked(t, "AddGlobalData")
       /\ globals' = [globals EXCEPT ![m] =
                         [k \in DOMAIN @ \cup {key} |-> IF k = key THEN value ELSE @[k]]]
       /\ lock' = Unlock(t, m)
       /\ thr' = Return(t)
       /\ UNCHANGED <<nodes, parent, children, tag, loggers, ret, closed>>

RemoveGlobalDataLocked(t) ==
    LET m == thr[t].node
    IN /\ Locked(t, "RemoveGlobalData")
       /\ globals' = [globals EXCEPT ![m] = [k \in DOMAIN @ \ {thr[t].arg} |-> @[k]]]
       /\ lock' = Unlock(t, m)
       /\ thr' = Return(t)
       /\ UNCHANGED <<nodes, parent, children, tag, loggers, ret, closed>>

SetTagLocked(t) ==
    LET m == thr[t].node
    IN /\ Locked(t, "SetTag")
       /\ tag' = [tag EXCEPT ![m] = thr[t].arg]
       /\ lock' = Unlock(t, m)
       /\ thr' = Return(t)
       /\ UNCHANGED <<nodes, parent, children, globals, loggers, ret, closed>>

\* Mutant: Add replaces the logger attached under the id and returns nil.
AddLockedOverwrite(t) ==
    LET m == thr[t].node
        l == thr[t].arg
    IN /\ Locked(t, "Add")
       /\ loggers' = [loggers EXCEPT ![m] = AddLoggersOverwrite(@, l)]
       /\ lock' = Unlock(t, m)
       /\ thr' = [thr EXCEPT ![t].pc = "done", ![t].errs = <<>>]
       /\ UNCHANGED <<nodes, parent, children, tag, globals, ret, closed>>

AddLocked(t) ==
    LET m == thr[t].node
        l == thr[t].arg
    IN /\ Locked(t, "Add")
       /\ loggers' = [loggers EXCEPT ![m] = AddLoggers(@, l)]
       /\ lock' = Unlock(t, m)
       /\ thr' = [thr EXCEPT ![t].pc = "done",
                              ![t].errs = IF AddError(loggers[m], l) = NoErr THEN <<>>
                                          ELSE <<AddError(loggers[m], l)>>]
       /\ UNCHANGED <<nodes, parent, children, tag, globals, ret, closed>>

NewSubManagerLocked(t) ==
    LET m == thr[t].node
        sm == Cardinality(nodes) + 1
    IN /\ Locked(t, "NewSubManager")
       /\ nodes' = nodes \cup {sm}
       /\ parent' = parent @@ (sm :> m)
       /\ children' = [children EXCEPT ![m] = @ \cup {sm}] @@ (sm :> {})
       /\ tag' = tag @@ (sm :> thr[t].arg)
       /\ globals' = globals @@ (sm :> EmptyMap)
       /\ loggers' = loggers @@ (sm :> EmptyMap)
       /\ lock' = Unlock(t, m) @@ (sm :> Unlocked)
       /\ thr' = [thr EXCEPT ![t].pc = "done", ![t].sub = sm]
       /\ UNCHANGED <<ret, closed>>

\* Mutant: Remove looks the logger up and leaves it in the mapping.
RemoveLockedNoDelete(t) ==
    LET m == thr[t].node
        loggerID == thr[t].arg
        ok == loggerID \in DOMAIN loggers[m]
    IN /\ Locked(t, "Remove")
       /\ lock' = Unlock(t, m)
       /\ thr' = [thr EXCEPT
                    ![t].pc = IF ok THEN "CloseRemoved" ELSE "done",
                    ![t].det = IF ok THEN [i \in {loggerID} |-> loggers[m][i]] ELSE EmptyMap]
       /\ UNCHANGED <<nodes, parent, children, tag, globals, loggers, ret, closed>>

\* Remove: the lookup and the delete under the lock.
RemoveLocked(t) ==
    LET m == thr[t].node
        loggerID == thr[t].arg
        ok == loggerID \in DOMAIN loggers[m]
    IN /\ Locked(t, "Remove")
       /\ loggers' = [loggers EXCEPT ![m] = RemoveLoggers(@, loggerID)]
       /\ lock' = Unlock(t, m)
       /\ thr' = [thr EXCEPT
                    ![t].pc = IF ok THEN "CloseRemoved" ELSE "done",
                    ![t].det = IF ok THEN [i \in {loggerID} |-> loggers[m][i]] ELSE EmptyMap]
       /\ UNCHANGED <<nodes, parent, children, tag, globals, ret, closed>>

\* Remove: l.Close() once the lock is released.
CloseRemoved(t) ==
    LET m == thr[t].node
        l == thr[t].det[thr[t].arg]
    IN /\ At(t, "CloseRemoved")
       /\ \E res \in CloseResults(l) :
            thr' = [thr EXCEPT
                      ![t].pc = "done",
                      ![t].calls = @ \o <<Call("Close", l, m, <<>>, res)>>,
                      ![t].errs = IF res # "nil" THEN <<Err(res, l)>> ELSE <<>>]
       /\ UNCHANGED <<mgr, ret, closed, lock>>

\* Mutant: closeFromParent closes the loggers and leaves them in the mapping.
CloseSwapKeepLoggers(t) ==
    LET m == thr[t].at
    IN /\ Locked(t, "Close")
       /\ children' = [children EXCEPT ![m] = {}]
       /\ closed' = closed \cup {m}
       /\ thr' = [thr EXCEPT
                    ![t].det = loggers[m],
                    ![t].kids = children[m],
                    ![t].pc = IF thr[t].top /\ parent[m] # NilMgr THEN "PingLock"
                              ELSE "CloseUnlock"]
       /\ UNCHANGED <<nodes, parent, tag, globals, loggers, ret, lock>>

\* closeFromParent: the two mappings are replaced by empty ones.
CloseSwap(t) ==
    LET m == thr[t].at
    IN /\ Locked(t, "Close")
       /\ loggers' = [loggers EXCEPT ![m] = EmptyMap]
       /\ children' = [children EXCEPT ![m] = {}]
       /\ closed' = closed \cup {m}
       /\ thr' = [thr EXCEPT
                    ![t].det = loggers[m],
                    ![t].kids = children[m],
                    ![t].pc = IF thr[t].top /\ parent[m] # NilMgr THEN "PingLock"
                              ELSE "CloseUnlock"]
       /\ UNCHANGED <<nodes, parent, tag, globals, ret, lock>>

\* m.parent.removeChild(m.ID()): its Lock, taken with m's lock held.
PingLock(t) ==
    /\ At(t, "PingLock")
    /\ Lock(t, parent[thr[t].at], [thr[t] EXCEPT !.pc = "PingLocked"])
    /\ UNCHANGED <<mgr, ret, closed>>

\* removeChild: the delete and the Unlock.
PingDelete(t) ==
    LET m == thr[t].at
    IN /\ At(t, "PingLocked")
       /\ children' = removeChild(children, parent[m], ID(m))
       /\ lock' = Unlock(t, parent[m])
       /\ thr' = [thr EXCEPT ![t].pc = "CloseUnlock"]
       /\ UNCHANGED <<nodes, parent, tag, globals, loggers, ret, closed>>

\* Mutant: the Unlock is deferred to the return of closeFromParent.
CloseUnlockDeferred(t) ==
    /\ At(t, "CloseUnlock")
    /\ thr' = [thr EXCEPT ![t].pc = "CloseLoggers"]
    /\ UNCHANGED <<mgr, ret, closed, lock>>

CloseUnlock(t) ==
    /\ At(t, "CloseUnlock")
    /\ lock' = Unlock(t, thr[t].at)
    /\ thr' = [thr EXCEPT ![t].pc = "CloseLoggers"]
    /\ UNCHANGED <<mgr, ret, closed>>

\* closeFromParent after the Unlock: the detached loggers are closed, then
\* the detached children are closed with fromParents true, one after the
\* other.
CloseDetached(t) ==
    LET m == thr[t].at
        d == thr[t].det
    IN /\ At(t, "CloseLoggers")
       /\ \E o \in Orders(DOMAIN d), cs \in Orders(thr[t].kids) :
          \E res \in {f \in [DOMAIN d -> CloseOutcomes] :
                         \A i \in DOMAIN f : f[i] \in CloseResults(d[i])} :
            LET calls == [i \in 1..Len(o) |-> Call("Close", d[o[i]], m, <<>>, res[o[i]])]
                todo  == cs \o thr[t].todo
            IN thr' = [thr EXCEPT
                         ![t].calls = @ \o calls,
                         ![t].errs = @ \o FailedErrs(calls),
                         ![t].det = EmptyMap,
                         ![t].kids = {},
                         ![t].top = FALSE,
                         ![t].pc = IF Len(todo) = 0 THEN "done" ELSE "Lock",
                         ![t].at = IF Len(todo) = 0 THEN m ELSE todo[1],
                         ![t].todo = IF Len(todo) = 0 THEN <<>> ELSE Tail(todo)]
       /\ UNCHANGED <<mgr, ret, closed, lock>>

\* Tag: m.RLock().
TagRLock(t) ==
    /\ At(t, "TagRLock")
    /\ RLock(t, thr[t].at, [thr[t] EXCEPT !.pc = "TagRead"])
    /\ UNCHANGED <<mgr, ret, closed>>

\* Mutant: FullTag calls the parent's FullTag before the RUnlock.
TagReadKeepLock(t) ==
    LET m    == thr[t].at
        tagv == tag[m] \o thr[t].tagv
        last == thr[t].op = "Tag" \/ parent[m] = NilMgr
        text == Sprintln(thr[t].arg)
        m1   == IF tagv # <<>> THEN tagv \o <<" ">> \o text ELSE text
    IN /\ At(t, "TagRead")
       /\ lock' = IF last THEN [lock EXCEPT ![m].r = @ \ {t}] ELSE lock
       /\ thr' = [thr EXCEPT ![t] =
            IF ~last THEN [@ EXCEPT !.tagv = tagv, !.at = parent[m], !.pc = "TagRLock"]
            ELSE IF thr[t].op # "Log" THEN [@ EXCEPT !.tagv = tagv, !.pc = "done"]
            ELSE IF m1[Len(m1)] # NL
                 THEN [@ EXCEPT !.tagv = tagv, !.msg = m1 \o <<NL>>, !.at = thr[t].node,
                                !.pc = "DeliverRLock"]
            ELSE [@ EXCEPT !.tagv = tagv, !.msg = m1, !.at = PathTo(thr[t].node)[1],
                           !.pc = "Globals"]]
       /\ UNCHANGED <<mgr, ret, closed>>

\* Tag: the read of m.tag and the RUnlock; FullTag then goes on with the
\* parent, holding no lock; format goes on to allGlobals when the message
\* ends in a newline.
TagRead(t) ==
    LET m    == thr[t].at
        tagv == tag[m] \o thr[t].tagv
        last == thr[t].op = "Tag" \/ parent[m] = NilMgr
        text == Sprintln(thr[t].arg)
        m1   == IF tagv # <<>> THEN tagv \o <<" ">> \o text ELSE text
    IN /\ At(t, "TagRead")
       /\ lock' = RUnlock(t, m)
       /\ thr' = [thr EXCEPT ![t] =
            IF ~last THEN [@ EXCEPT !.tagv = tagv, !.at = parent[m], !.pc = "TagRLock"]
            ELSE IF thr[t].op # "Log" THEN [@ EXCEPT !.tagv = tagv, !.pc = "done"]
            ELSE IF m1[Len(m1)] # NL
                 THEN [@ EXCEPT !.tagv = tagv, !.msg = m1 \o <<NL>>, !.at = thr[t].node,
                                !.pc = "DeliverRLock"]
            ELSE [@ EXCEPT !.tagv = tagv, !.msg = m1, !.at = PathTo(thr[t].node)[1],
                           !.pc = "Globals"]]
       /\ UNCHANGED <<mgr, ret, closed>>

\* allGlobals: the range over m.globals, with no lock taken; the root's
\* mapping is read first.  format then encodes the merged mapping.
GlobalsRange(t) ==
    LET m == thr[t].at
        g == [k \in DOMAIN thr[t].glob \cup DOMAIN globals[m] |->
                 IF k \in DOMAIN globals[m] THEN globals[m][k] ELSE thr[t].glob[k]]
    IN /\ At(t, "Globals")
       /\ thr' = [thr EXCEPT ![t] =
            IF m # thr[t].node THEN [@ EXCEPT !.glob = g, !.at = NextDown(thr[t].node, m)]
            ELSE [@ EXCEPT !.glob = g, !.pc = "DeliverRLock",
                           !.msg = IF Cardinality(DOMAIN g) > 0
                                   THEN @ \o Marshal(g) \o <<NL>> ELSE @]]
       /\ UNCHANGED <<mgr, ret, closed, lock>>

\* Thread u is between the Lock and the Unlock of a method that writes
\* m.globals.
WritingGlobals(u, m) ==
    /\ thr[u].pc = "Locked"
    /\ thr[u].op \in {"AddGlobalData", "RemoveGlobalData"}
    /\ thr[u].node = m

\* The range over m.globals runs while another thread writes the map: one
\* outcome is the runtime's fatal error "concurrent map iteration and map
\* write", which ends the process (the others are the reads before and after
\* the write).
Fatal(t) ==
    /\ At(t, "Globals")
    /\ \E u \in Threads \ {t} : WritingGlobals(u, thr[t].at)
    /\ thr' = [thr EXCEPT ![t].pc = "fatal"]
    /\ UNCHANGED <<mgr, ret, closed, lock>>

\* log: m.RLock(), then the parent's log with the lock held.
DeliverRLock(t) ==
    LET m == thr[t].at
    IN /\ At(t, "DeliverRLock")
       /\ RLock(t, m, IF parent[m] # NilMgr THEN [thr[t] EXCEPT !.at = parent[m]]
                       ELSE [thr[t] EXCEPT !.pc = "DeliverWrite"])
       /\ UNCHANGED <<mgr, ret, closed>>

\* log: the range over m.loggers and the deferred RUnlock, the root first.
DeliverWrite(t) ==
    LET m == thr[t].at
    IN /\ At(t, "DeliverWrite")
       /\ lock' = RUnlock(t, m)
       /\ \E c \in Writes(m, "Log", thr[t].msg) :
            thr' = [thr EXCEPT ![t] =
                      IF m = thr[t].node THEN [@ EXCEPT !.calls = @ \o c, !.pc = "done"]
                      ELSE [@ EXCEPT !.calls = @ \o c, !.at = NextDown(thr[t].node, m)]]
       /\ UNCHANGED <<mgr, ret, closed>>

\* The methods the threads call and their arguments.
Calls(m) ==
    {<<"AddGlobalData", <<<<"k">>, <<"v">>>>>>, <<"RemoveGlobalData", <<"k">>>>,
     <<"SetTag", TA>>, <<"Tag", <<>>>>, <<"FullTag", <<>>>>,
     <<"Add", "l1">>, <<"Add", "l2">>, <<"Remove", LoggerID("l1")>>, <<"Close", <<>>>>,
     <<"NewSubManager", <<>>>>, <<"Log", << <<"x">> >>>>}

\* Building the tree before the threads start.
SetupNewSubManager(m) ==
    NotStarted /\ Cardinality(nodes) < MaxConcNodes /\ NewSubManager(m, <<>>)

SetupLoggers == {"l1"}

SetupAdd(m) == NotStarted /\ \E l \in SetupLoggers : Add(m, l)

NextConc ==
    \/ \E m \in nodes : SetupNewSubManager(m) \/ SetupAdd(m)
    \/ \E t \in Threads :
          \/ \E m \in nodes : \E c \in Calls(m) : Invoke(t, c[1], m, c[2])
          \/ LockManager(t)
          \/ AddGlobalDataLocked(t)
          \/ RemoveGlobalDataLocked(t)
          \/ SetTagLocked(t)
          \/ AddLocked(t)
          \/ NewSubManagerLocked(t)
          \/ RemoveLocked(t)
          \/ CloseRemoved(t)
          \/ CloseSwap(t)
          \/ PingLock(t)
          \/ PingDelete(t)
          \/ CloseUnlock(t)
          \/ CloseDetached(t)
          \/ TagRLock(t)
          \/ TagRead(t)
          \/ GlobalsRange(t)
          \/ Fatal(t)
          \/ DeliverRLock(t)
          \/ DeliverWrite(t)

SpecConc == InitWith({<<>>}) /\ [][NextConc]_vars

----------------------------------------------------------------------------
(* Locks: C15, C16, C17 (specification SpecConc) *)

\* The fields of managers the next statement of thread t reads or writes.
Access(n, f, w) == [n |-> n, f |-> f, w |-> w]

Accesses(t) ==
    LET r == thr[t]
    IN CASE r.pc = "Locked" /\ r.op \in {"AddGlobalData", "RemoveGlobalData"} ->
               {Access(r.node, "globals", TRUE)}
         [] r.pc = "Locked" /\ r.op = "SetTag" -> {Access(r.node, "tag", TRUE)}
         [] r.pc = "Locked" /\ r.op \in {"Add", "Remove"} -> {Access(r.node, "loggers", TRUE)}
         [] r.pc = "Locked" /\ r.op = "NewSubManager" -> {Access(r.node, "children", TRUE)}
         [] r.pc = "Locked" /\ r.op = "Close" ->
               {Access(r.at, "loggers", TRUE), Access(r.at, "children", TRUE)}
         [] r.pc = "PingLocked" -> {Access(parent[r.at], "children", TRUE)}
         [] r.pc = "TagRead" -> {Access(r.at, "tag", FALSE)}
         [] r.pc = "Globals" -> {Access(r.at, "globals", FALSE)}
         [] r.pc = "DeliverWrite" -> {Access(r.at, "loggers", FALSE)}
         [] OTHER -> {}

\* The manager whose lock thread t is about to take or is waiting for.
Wanted(t) ==
    CASE thr[t].pc \in {"Lock", "TagRLock", "DeliverRLock"} -> {thr[t].at}
      [] thr[t].pc = "PingLock" -> {parent[thr[t].at]}
      [] OTHER -> {}

Busy(t) == thr[t].pc \notin {"idle", "done"}

\* A statement of thread t.
Step(t) ==
    \/ LockManager(t) \/ AddGlobalDataLocked(t) \/ RemoveGlobalDataLocked(t)
    \/ SetTagLocked(t) \/ AddLocked(t) \/ NewSubManagerLocked(t) \/ RemoveLocked(t)
    \/ CloseRemoved(t) \/ CloseSwap(t) \/ PingLock(t) \/ PingDelete(t)
    \/ CloseUnlock(t) \/ CloseDetached(t) \/ TagRLock(t) \/ TagRead(t)
    \/ GlobalsRange(t) \/ Fatal(t) \/ DeliverRLock(t) \/ DeliverWrite(t)

\* C15 as stated: every read of a manager's loggers, children, tag or globals
\* is made by a thread holding that manager's lock and every write by the
\* thread holding its write lock, and no two threads are about to access the
\* same field of the same manager when one of the accesses is a write.
C15_FieldsGuarded ==
    /\ \A t \in Threads : \A a \in Accesses(t) :
          IF a.w THEN lock[a.n].w = t ELSE lock[a.n].w = t \/ t \in lock[a.n].r
    /\ \A t, u \in Threads : \A a \in Accesses(t) : \A b \in Accesses(u) :
          (t # u /\ a.n = b.n /\ a.f = b.f) => ~(a.w \/ b.w)

\* A thread ranging over the globals of a manager, holding no lock, while
\* another is in AddGlobalData on that manager, holding its write lock.
C15_RaceOnGlobals ==
    \E t, u \in Threads :
        /\ thr[t].pc = "Globals"
        /\ Held(t) = {}
        /\ WritingGlobals(u, thr[t].at)
        /\ thr[u].op = "AddGlobalData"
        /\ lock[thr[t].at].w = u

\* C16 as stated: a thread that holds the lock of a manager holds no other
\* and is not taking or waiting for one.
C16_NoNestedLocks ==
    \A t \in Threads :
        /\ Cardinality(Held(t)) <= 1
        /\ Held(t) # {} => Wanted(t) = {}

\* C16 as amended: a thread takes a lock while holding another only in the
\* delivery of a message and in the removeChild of the manager Close was
\* called on, and the lock taken is then that of an ancestor of every
\* manager whose lock it holds (child first, the child's lock kept); the
\* managers closed from their parent take no second lock, FullTag holds one
\* lock at a time and none while it goes to the parent, and allGlobals none.
C16_ChildBeforeParent ==
    \A t \in Threads :
        /\ \A n \in Wanted(t) : \A h \in Held(t) : n \in ProperAncestors(h)
        /\ (Wanted(t) # {} /\ Held(t) # {}) =>
              \/ thr[t].pc = "DeliverRLock"
              \/ thr[t].pc = "PingLock" /\ thr[t].top /\ thr[t].at = thr[t].node
        /\ Cardinality(Held(t)) > 1 =>
              \/ thr[t].pc \in {"DeliverRLock", "DeliverWrite"}
              \/ thr[t].pc = "PingLocked" /\ Held(t) = {thr[t].at, parent[thr[t].at]}
        /\ \A a, b \in Held(t) :
              a = b \/ a \in ProperAncestors(b) \/ b \in ProperAncestors(a)
        /\ thr[t].pc = "TagRLock" => Held(t) = {}
        /\ thr[t].pc = "TagRead" => Held(t) = {thr[t].at}
        /\ thr[t].pc = "Globals" => Held(t) = {}

\* A Close on a sub-manager holding its own lock and its parent's in
\* removeChild, while the other thread, delivering a message, waits.
C16_Witness ==
    \E t, u \in Threads :
        /\ thr[t].pc = "PingLocked"
        /\ Held(t) = {thr[t].at, parent[thr[t].at]}
        /\ thr[u].pc = "DeliverRLock"
        /\ thr[u].at = thr[t].at

\* C17 as stated: no thread takes the lock of a manager whose lock it holds,
\* and as long as a method is running some thread can execute its next
\* statement (so every method called returns).
C17_AllComplete ==
    /\ \A t \in Threads : Wanted(t) \cap Held(t) = {}
    /\ (\E t \in Threads : Busy(t)) => \E t \in Threads : ENABLED Step(t)

\* A process ended by the runtime with a method running in each thread.
C17_ProcessEnded ==
    /\ ~Running
    /\ \A t \in Threads : Busy(t)

\* As long as the runtime has not ended the process, no thread takes the lock
\* of a manager whose lock it holds and some running method can go on: the
\* locks alone stop no thread for ever.
LocksNeverStop ==
    Running =>
        /\ \A t \in Threads : Wanted(t) \cap Held(t) = {}
        /\ (\E t \in Threads : Busy(t)) => \E t \in Threads : ENABLED Step(t)

----------------------------------------------------------------------------
(* Closing backends under concurrent calls: C21 (specification SpecConc) *)

\* The backend calls thread t makes in the step.
NewCalls(t) == SubSeq(thr'[t].calls, Len(thr[t].calls) + 1, Len(thr'[t].calls))

Detached(t) == {thr[t].det[i] : i \in DOMAIN thr[t].det}

C21_CloseStep ==
    \A t \in Threads :
        /\ \A i \in DOMAIN NewCalls(t) :
              NewCalls(t)[i].m = "Close" =>
                /\ Held(t) = {}
                /\ NewCalls(t)[i].l \in Detached(t)
                /\ NewCalls(t)[i].at = thr[t].at
        /\ (thr'[t].det # thr[t].det /\ thr'[t].det # EmptyMap) =>
                /\ lock[thr[t].at].w = t
                /\ \A i \in DOMAIN thr'[t].det :
                      /\ i \in DOMAIN loggers[thr[t].at]
                      /\ thr'[t].det[i] = loggers[thr[t].at][i]
                      /\ i \notin DOMAIN loggers'[thr[t].at]
                /\ thr'[t].calls = thr[t].calls

\* C21: a thread calls Close on a backend only while it holds no lock, in
\* Remove, in Close and in the closes of the descendants; the backend was
\* taken out of the manager's mapping under the manager's write lock, in a
\* step that calls no backend.
C21_CloseOutsideLocks == [][C21_CloseStep]_vars

\* Close on a manager has closed a backend of a sub-manager, and a Remove by
\* the other thread has closed a backend too.
C21_Witness ==
    \E t, u \in Threads :
        /\ thr[t].op = "Close" /\ thr[t].pc = "done"
        /\ \E i \in DOMAIN thr[t].calls :
              thr[t].calls[i].m = "Close" /\ thr[t].calls[i].at # thr[t].node
        /\ thr[u].op = "Remove" /\ thr[u].pc = "done"
        /\ Len(thr[u].calls) = 1

----------------------------------------------------------------------------
(* A closed manager stays usable: C22 (specification SpecReuse) *)

C22_Step ==
    LET n == ret'.node
    IN /\ ret'.op = "Close" =>
            /\ nodes' = nodes
            /\ parent' = parent
            /\ tag' = tag
            /\ globals' = globals
       /\ (ret'.op = "Add" /\ n \in closed) =>
            /\ LoggerID(ret'.arg) \notin DOMAIN loggers[n] =>
                  /\ ret'.err = NoErr
                  /\ loggers'[n] = AddLoggers(loggers[n], ret'.arg)
                  /\ loggers'[n][LoggerID(ret'.arg)] = ret'.arg
            /\ (ret.op = "Close" /\ ret.node = n) => ret'.err = NoErr
       /\ (ret'.op = "NewSubManager" /\ n \in closed) =>
            /\ ret'.sub \in nodes' \ nodes
            /\ parent'[ret'.sub] = n
            /\ children'[n] = children[n] \cup {ret'.sub}

C22_LogAfterClose ==
    (IsLog /\ ret.node \in closed) =>
        /\ ret.val = ComposedMessage(ret.node, ret.args)
        /\ \A a \in OnPath(ret.node) : \A l \in AttachedAt(a) :
              \E i \in DOMAIN ret.calls :
                  /\ ret.calls[i].at = a /\ ret.calls[i].l = l
                  /\ ret.calls[i].msg = ret.val
                  /\ \A j \in DOMAIN ret.calls :
                        (ret.calls[j].at = a /\ ret.calls[j].l = l) => j = i
        /\ \A i \in DOMAIN ret.calls : ret.calls[i].l \in AttachedAt(ret.calls[i].at)

\* C22: Close leaves the set of managers (the id of each with it), every
\* parent, every tag and every context mapping as they were; on a closed
\* manager Add with an id not in its mapping (any id right after the Close)
\* returns no error and attaches the backend, NewSubManager registers a new
\* child, and a logging call composes the message from the tags and the
\* context data on the path and writes it once to every backend attached on
\* the path, those attached after the Close included.
C22_ClosedStaysUsable == [][C22_Step]_vars /\ []C22_LogAfterClose

\* Log on a closed, tagged sub-manager that was given a backend with a reused
\* id and a child after its Close, under a root with context data.
C22_Witness ==
    /\ ret.op = "Log"
    /\ ret.node \in closed
    /\ parent[ret.node] # NilMgr
    /\ tag[ret.node] = TB
    /\ AttachedAt(ret.node) = {"l2"}
    /\ children[ret.node] # {}
    /\ PathKeys(ret.node) # {}
    /\ \E i \in DOMAIN ret.calls : ret.calls[i].at = ret.node /\ ret.calls[i].l = "l2"

----------------------------------------------------------------------------
(* One Close per attachment: C23 (specification SpecConc) *)

\* The Close calls the threads have made on backend l for manager n.
ClosesOf(l, n) ==
    UNION {{<<t, i>> : i \in {j \in DOMAIN thr[t].calls :
                                   /\ thr[t].calls[j].m = "Close"
                                   /\ thr[t].calls[j].l = l
                                   /\ thr[t].calls[j].at = n}} : t \in Threads}

\* The threads that have taken l out of the mapping of n and not closed it yet.
Detaching(l, n) ==
    {t \in Threads : thr[t].pc \in {"CloseRemoved", "PingLock", "PingLocked",
                                      "CloseUnlock", "CloseLoggers"}
                      /\ thr[t].at = n /\ l \in Detached(t)}

\* C23: when no thread attaches a backend, a backend attached to a manager is
\* at any time either in the manager's mapping, or held by the one thread
\* that took it out, or closed, once; so with Close and Remove running on
\* the manager and on its ancestors in any interleaving it is closed at most
\* once for that manager, and at most once at all when it was attached to
\* one manager only.
C23_ClosedAtMostOnce ==
    (\A t \in Threads : thr[t].op # "Add") =>
        \A l \in Loggers : \A n \in nodes :
            Cardinality(ClosesOf(l, n)) + Cardinality(Detaching(l, n))
                + (IF l \in AttachedAt(n) THEN 1 ELSE 0) <= 1

\* A sub-manager closing itself while its parent closes: both calls have
\* returned, and the backend of the sub-manager was closed by one of them.
C23_Witness ==
    \E t, u \in Threads :
        /\ thr[t].op = "Close" /\ thr[t].pc = "done" /\ parent[thr[t].node] = NilMgr
        /\ thr[u].op = "Close" /\ thr[u].pc = "done" /\ parent[thr[u].node] = thr[t].node
        /\ \E l \in Loggers : Cardinality(ClosesOf(l, thr[u].node)) = 1
        /\ thr[u].calls = <<>>

----------------------------------------------------------------------------
(* No write after Close: C24 (specification SpecConc) *)

C24_Step ==
    (\A t \in Threads : thr[t].op # "Add") =>
        \A t \in Threads : \A i \in DOMAIN NewCalls(t) :
            LET c == NewCalls(t)[i]
            IN c.m \in WriteMethods =>
                /\ ClosesOf(c.l, c.at) = {}
                /\ Detaching(c.l, c.at) = {}
                /\ c.l \in AttachedAt(c.at)
                /\ t \in lock[c.at].r

\* C24: when no thread attaches a backend, a logging call writes to a backend
\* for a manager only while it holds the manager's read lock and the backend
\* is in the manager's mapping: no thread has taken it out and none has
\* called its Close for that manager, so a backend attached to one manager
\* is never written once Remove or Close has called its Close.
C24_NoWriteAfterClose == [][C24_Step]_vars

\* A logging call on a sub-manager has written to the backend of the root,
\* and a Remove or Close on the root has closed that backend since.
C24_Witness ==
    \E t, u \in Threads : \E l \in Loggers :
        /\ thr[t].op = "Log" /\ thr[t].pc = "done"
        /\ parent[thr[t].node] # NilMgr
        /\ \E i \in DOMAIN thr[t].calls :
              /\ thr[t].calls[i].l = l
              /\ thr[t].calls[i].at = parent[thr[t].node]
              /\ \E j \in DOMAIN thr[u].calls : <<u, j>> \in ClosesOf(l, thr[t].calls[i].at)
        /\ \A n \in nodes : l \notin AttachedAt(n)

----------------------------------------------------------------------------
(* Concurrent Add: C25 (specification SpecConc) *)

\* Thread t has returned from Add.
Added(t) == thr[t].op = "Add" /\ thr[t].pc = "done"

C25_AddStep ==
    \A t \in Threads :
        (thr[t].op = "Add" /\ thr[t].pc = "Locked" /\ thr'[t].pc = "done") =>
            LET n == thr[t].node
                id == LoggerID(thr[t].arg)
            IN IF id \in DOMAIN loggers[n]
               THEN thr'[t].errs = <<ErrAlreadyExist>> /\ loggers' = loggers
               ELSE /\ thr'[t].errs = <<>>
                    /\ loggers'[n][id] = thr[t].arg
                    /\ \A u \in Threads \ {t} :
                          (thr[u].op = "Add" /\ thr[u].node = n
                           /\ LoggerID(thr[u].arg) = id) => thr[u].pc # "done"

C25_OneWinner ==
    \A t, u \in Threads :
        (t # u /\ Added(t) /\ Added(u) /\ thr[t].node = thr[u].node
         /\ LoggerID(thr[t].arg) = LoggerID(thr[u].arg)) =>
            /\ thr[t].errs = <<>> => thr[u].errs = <<ErrAlreadyExist>>
            /\ thr[t].errs = <<>> =>
                  loggers[thr[t].node][LoggerID(thr[t].arg)] = thr[t].arg
            /\ LoggerID(thr[t].arg) \in DOMAIN loggers[thr[t].node]
            /\ loggers[thr[t].node][LoggerID(thr[t].arg)] \notin SetupLoggers =>
                  (thr[t].errs = <<>>) # (thr[u].errs = <<>>)

\* C25: an Add returns ErrAlreadyExist exactly when the id is in the mapping
\* as it takes its turn under the write lock, and nil, attaching its backend,
\* otherwise; so of the concurrent Add calls on one manager with one id the
\* first to take the lock returns nil when the id was not attached before,
\* every other returns ErrAlreadyExist, and the mapping holds the backend of
\* the call that returned nil (when the mapping ends with a backend that was
\* not attached before the threads started, exactly one call returned nil).
C25_ConcurrentAdd == [][C25_AddStep]_vars /\ []C25_OneWinner

\* Two threads have returned from Add on one manager with two backends of
\* one id: the call with l2 returned nil, the call with l1 ErrAlreadyExist.
C25_Witness ==
    \E t, u \in Threads :
        /\ Added(t) /\ Added(u) /\ thr[t].node = thr[u].node
        /\ thr[t].arg = "l2" /\ thr[u].arg = "l1"
        /\ thr[t].errs = <<>>
        /\ thr[u].errs = <<ErrAlreadyExist>>
        /\ loggers[thr[t].node][LoggerID("l2")] = "l2"

----------------------------------------------------------------------------
(* Context mappings are local: C26 (specification SpecCtx) *)

\* Mappings f and g differ at one key at most.
DifferAtOne(f, g) ==
    \E k \in DOMAIN f \cup DOMAIN g :
        \A j \in (DOMAIN f \cup DOMAIN g) \ {k} :
            j \in DOMAIN f /\ j \in DOMAIN g /\ f[j] = g[j]

C26_Step ==
    LET n == ret'.node
    IN /\ ret'.op \in LogMethods =>
            /\ globals' = globals
            /\ allGlobalsRun(n).ref = NilMgr
            /\ allGlobalsRun(n).val = MergedContext(n)
       /\ ret'.op \in {"AddGlobalData", "RemoveGlobalData"} =>
            /\ \A x \in nodes \ {n} : globals'[x] = globals[x]
            /\ globals'[n] = globals[n] \/ DifferAtOne(globals[n], globals'[n])
       /\ ret'.op = "AddGlobalData" => DOMAIN globals[n] \subseteq DOMAIN globals'[n]
       /\ ret'.op = "RemoveGlobalData" =>
            /\ DOMAIN globals'[n] \subseteq DOMAIN globals[n]
            /\ \A k \in DOMAIN globals'[n] : globals'[n][k] = globals[n][k]
       /\ ret'.op = "NewSubManager" => \A x \in nodes : globals'[x] = globals[x]

\* C26: a logging call leaves the context mapping of every manager as it
\* was, the merged context being built in a map of its own; AddGlobalData
\* and RemoveGlobalData on a manager change one key of that manager's
\* mapping and no other mapping, and NewSubManager changes none; so the
\* mapping of a manager holds what its own AddGlobalData put and its own
\* RemoveGlobalData did not remove.
C26_ContextIsLocal == [][C26_Step]_vars

\* Log on a sub-manager that shadows a key of its parent: the message carries
\* the sub-manager's value and the parent's mapping keeps its own.
C26_Witness ==
    /\ ret.op = "Log"
    /\ parent[ret.node] # NilMgr
    /\ <<"k">> \in DOMAIN globals[ret.node]
    /\ <<"k">> \in DOMAIN globals[parent[ret.node]]
    /\ globals[ret.node][<<"k">>] = <<"w">>
    /\ globals[parent[ret.node]][<<"k">>] = <<"v">>
    /\ <<"j">> \in DOMAIN globals[parent[ret.node]]
    /\ ret.val = ComposedMessage(ret.node, ret.args)

----------------------------------------------------------------------------
(* Logging on a closed sub-manager: C27 (specification SpecReuse) *)

\* The step is a logging call on the sub-manager whose Close has just
\* returned.
LogAfterClose ==
    /\ ret.op = "Close"
    /\ ret.pings # <<>>
    /\ ret'.op \in LogMethods
    /\ ret'.node = ret.node

\* The backends Close found attached to the manager it was called on.
ClosedAt(n) == {ret.calls[i].l : i \in {j \in DOMAIN ret.calls : ret.calls[j].at = n}}

\* The call writes the message once to every backend of the parent pinged by
\* the Close and of the managers above it.
ReachesAncestors ==
    LET p == ret.pings[1]
    IN /\ ret'.val = ComposedMessage(ret.node, ret'.args)
       /\ PathTag(ret.node) = PathTag(p) \o tag[ret.node]
       /\ SubSeq(ret'.val, 1, Len(PathTag(ret.node))) = PathTag(ret.node)
       /\ \A a \in OnPath(p) : \A l \in AttachedAt(a) :
             \E i \in DOMAIN ret'.calls :
                 /\ ret'.calls[i].at = a /\ ret'.calls[i].l = l
                 /\ ret'.calls[i].msg = ret'.val
                 /\ \A j \in DOMAIN ret'.calls :
                       (ret'.calls[j].at = a /\ ret'.calls[j].l = l) => j = i

\* C27 as stated: a logging call on a sub-manager S whose Close has returned
\* writes the composed message, with the full tag of S, to the backends of
\* every ancestor of S, and to none of the backends that were attached to S
\* before the Close.
C27_ClosedBackendsSilent ==
    [][LogAfterClose =>
         /\ ReachesAncestors
         /\ \A i \in DOMAIN ret'.calls : ret'.calls[i].l \notin ClosedAt(ret.node)]_vars

\* C27 as amended: the call writes the composed message, with the full tag
\* of S, once to every backend for every ancestor it is attached to, and
\* makes no write for S; a backend that was attached to S before the Close
\* receives it when it is attached to an ancestor of S too.
C27_NoWriteForClosed ==
    [][LogAfterClose =>
         /\ ReachesAncestors
         /\ \A i \in DOMAIN ret'.calls :
               /\ ret'.calls[i].at \in OnPath(ret.pings[1])
               /\ ret'.calls[i].at # ret.node]_vars

\* Log on a closed sub-manager tagged "b" with no backend, below a tagged
\* root with a backend and context data: one write, made for the root.
C27_Witness ==
    /\ ret.op = "Log"
    /\ ret.node \in closed
    /\ parent[ret.node] # NilMgr
    /\ ret.node \notin children[parent[ret.node]]
    /\ AttachedAt(ret.node) = {}
    /\ AttachedAt(parent[ret.node]) # {}
    /\ tag[ret.node] = TB
    /\ PathKeys(ret.node) # {}
    /\ Len(ret.calls) = 1
    /\ ret.calls[1].at = parent[ret.node]
    /\ ret.calls[1].msg = ComposedMessage(ret.node, ret.args)

====
